---- MODULE Spec2Model ----
(***************************************************************************)
(* ebook-architect: the generation orchestrator of src/App.tsx and the     *)
(* provider client of src/services/geminiService.ts as a state machine.    *)
(*                                                                         *)
(* React state (status, config, bookData, error, isApiKeyModalOpen,        *)
(* generationProgress) is the shared state.  Every invocation of an async  *)
(* handler is a process: it keeps the values its closure captured and its  *)
(* locals, and it takes one step per resumption (an awaited call resolving *)
(* or rejecting, a stream fragment arriving).  Between two resumptions any *)
(* event handler the rendered view offers may run.                         *)
(*                                                                         *)
(* A provider operation called without a credential rejects in getClient   *)
(* before it suspends on the network, so its caller resumes in a microtask *)
(* of the same task: no event handler runs in between, and the step that   *)
(* makes such a call also handles its rejection.                           *)
(*                                                                         *)
(* The record of an invocation that has returned (pc = "done") shows its   *)
(* last locals; it is dropped by the next step of the system.              *)
(*                                                                         *)
(* Optional values (T | undefined, T | null) are sequences of length 0     *)
(* or 1.  Text is a sequence of characters, "" is <<>>.                    *)
(***************************************************************************)
EXTENDS Integers, Sequences, FiniteSets, TLC

\* ---------------------------------------------------------------- bounds
MaxChapters == 2      \* longest outline the provider returns / the user builds
MaxChunks   == 2      \* most fragments one text stream yields
MaxRuns     == 2      \* invocations of startFullGeneration in flight at once
MaxOutlines == 2      \* invocations of startOutlineGeneration in flight at once
MaxClicks   == 7      \* user actions in one behaviour of the impatient user
MaxClock    == 1      \* latest value of Date.now() the model distinguishes
MaxSections == 2      \* most sections the print container holds at an export

RunIds     == 1..MaxRuns
OutlineIds == 1..MaxOutlines

\* ------------------------------------------------------- value universes
None    == <<>>
Some(x) == <<x>>

\* The k-th fragment a text stream yields: non-empty (geminiService.ts:124),
\* and different from the fragments around it, so that order shows.
Chunk(k) == <<<<"a">>, <<"b">>, <<"c">>, <<"d">>>>[k]
\* The data: URL generateImage returns to run r for chapter i (0: the cover);
\* every call returns a new one.
Url(r, i) == <<r, i>>
Topics    == {"", "T"}
\* The titles the user may type in the form, and those the provider may return
UserTitles     == {"", "U"}
ProviderTitles == {"", "P"}
EditedText == {<<>>, <<"c">>}        \* what the reader's edit buffer may hold

\* src/App.tsx:202  the fixed text substituted for a stream that produced nothing
ErrorText == <<"*Error generating text. Please try regenerating.*">>

\* src/services/geminiService.ts:7
MissingKeyMsg == "API Key missing. Please add your Gemini API Key in the settings."
\* any other Error a provider operation raises
ProviderMsg   == "Failed to parse outline."

\* e.message.includes("API Key")   (src/App.tsx:84, 226)
IncludesApiKey(msg) == msg = MissingKeyMsg

\* A variant for which no string is truthy.
Truthy_Never(opt) == FALSE

\* JavaScript truthiness of an optional string: neither undefined nor ""
Truthy(opt) == opt # None /\ opt[1] # <<>>

\* ----------------------------------------------------------------- state
\* isApiKeyModalOpen only decides whether the credential dialog is drawn; the
\* dialog's one effect on the rest, storing or removing the key, is handleSave.
VARIABLES
  status,              \* useState<GenerationStatus>
  config,              \* useState<BookConfig>      (topic, title)
  bookData,            \* useState<BookData | null> (None or Some(book))
  error,               \* useState<string | null>
  generationProgress,  \* useState({current, total, message})
  apiKey,              \* localStorage 'gemini_api_key' || process.env.API_KEY is set
  runs,                \* the invocations of startFullGeneration
  outlines,            \* the invocations of startOutlineGeneration
  clicks,              \* number of user actions so far (see Click)
  now,                 \* the last value Date.now() returned
  pdf,                 \* the PDF export of the reader (handleDownloadPdf)
  regen                \* the reader's invocation of handleRegenerateImage

vars == <<status, config, bookData, error, generationProgress, apiKey,
          runs, outlines, clicks, now, pdf, regen>>

\* src/App.tsx:23-33
INITIAL_CONFIG == [topic |-> "", title |-> ""]

\* What a run records of a chapter it has generated: its index, the status it
\* had when the loop reached it, the number of fragments its stream yielded,
\* whether the stream failed, whether the illustration call failed.
NoChapter == [k |-> 0, was |-> "pending", yielded |-> 0, streamFailed |-> FALSE,
              imageFailed |-> FALSE]

\* An unused invocation slot of startFullGeneration: its program counter, the
\* config of the bookData its closure captured (the outline of that bookData
\* is newOutline before the loop; nothing else of it is read after the first
\* step), its locals, and a record of what it did: the provider calls it
\* made, how many of them getClient refused, the chapters it skipped, the
\* status chapter i had when the loop reached it, the number of fragments its
\* stream has yielded and whether it failed, the chapter generated last, and
\* the status the run set last.
NoRun == [pc |-> "idle", config |-> INITIAL_CONFIG, totalSteps |-> 0, completedSteps |-> 0,
          newOutline |-> <<>>, i |-> 0, fullText |-> <<>>,
          calls |-> <<>>, refused |-> 0, skipped |-> {}, was |-> "pending", yielded |-> 0,
          streamFailed |-> FALSE, last |-> NoChapter, result |-> None]

\* An unused invocation slot of startOutlineGeneration: its program counter,
\* the config its closure captured, the status it was called in, and the
\* title of the response it got (outlineData.title).
NoOutline == [pc |-> "idle", config |-> INITIAL_CONFIG, from |-> "IDLE", title |-> ""]

\* No export has been asked for: the bitmaps html2canvas makes of the
\* sections of the print container, the position of handleDownloadPdf, its
\* loop index, and the pages of the jsPDF document, each the list of the
\* images placed on it.
NoPdf == [pc |-> "idle", sections |-> <<>>, i |-> 0, pages |-> <<>>]

\* No illustration is being redrawn in the reader: the position of
\* handleRegenerateImage, and the bookData and the chapter id its closure
\* captured (the bookData through the onUpdateImage it was rendered with).
NoRegen == [pc |-> "idle", bookData |-> None, chapterId |-> None]

Init ==
  /\ status = "IDLE"
  /\ config = INITIAL_CONFIG
  /\ bookData = None
  /\ error = None
  /\ generationProgress = [current |-> 0, total |-> 0, message |-> <<>>]
  /\ apiKey \in BOOLEAN
  /\ runs = [r \in RunIds |-> NoRun]
  /\ outlines = [o \in OutlineIds |-> NoOutline]
  /\ clicks = 0
  /\ now = 0
  /\ pdf = NoPdf
  /\ regen = NoRegen

\* The reader replaces the whole App view (src/App.tsx:239-248).
ReaderShown == status = "COMPLETED" /\ bookData # None
\* The outline review panel (src/App.tsx:463).
ReviewShown == status = "REVIEWING_OUTLINE" /\ bookData # None

\* ------------------------------------------------------------ the outline
\* What the provider puts in the k-th entry of its outline.
ProviderTitle(k)       == <<"t1", "t2", "t3", "t4">>[k]
ProviderDescription(k) == <<"d1", "d2", "d3", "d4">>[k]

\* A variant that takes the provider's sections for written ones.
OutlineChapter_Done(k) ==
  [id |-> <<k - 1, -1>>, title |-> ProviderTitle(k),
   description |-> ProviderDescription(k),
   content |-> None, imageUrl |-> None, status |-> "completed"]

\* src/App.tsx:66-70   { id: `chap-${i}`, ...c, status: 'pending' }
\* An id is <<n, stamp>>: `chap-${n}` has stamp -1, `chap-${n}-${Date.now()}`
\* has the clock value.
OutlineChapter(k) ==
  [id |-> <<k - 1, -1>>, title |-> ProviderTitle(k),
   description |-> ProviderDescription(k),
   content |-> None, imageUrl |-> None, status |-> "pending"]

\* A variant that prefers the title of the form to that of the provider.
FinalTitle_UserFirst(providerTitle, cfg) ==
  IF cfg.title # "" THEN cfg.title
  ELSE IF providerTitle # "" THEN providerTitle ELSE cfg.topic

\* src/App.tsx:73   outlineData.title || config.title || config.topic
FinalTitle(providerTitle, cfg) ==
  IF providerTitle # "" THEN providerTitle
  ELSE IF cfg.title # "" THEN cfg.title ELSE cfg.topic

\* An invocation is in flight from its call to its last step.
InFlight(proc) == proc.pc \notin {"idle", "done"}

\* The records of the invocations that have not returned.
Collect(procs, none) ==
  [p \in DOMAIN procs |-> IF procs[p].pc = "done" THEN none ELSE procs[p]]

\* The slot a new invocation takes: the first one with no invocation in flight.
FreeSlot(procs, ids) ==
  {p \in ids : ~InFlight(procs[p]) /\ \A q \in ids : q < p => InFlight(procs[q])}

\* src/App.tsx:51-53, the inputs of the configuration form (shown while IDLE)
handleConfigChange(key, value) ==
  /\ status = "IDLE"
  /\ config' = [config EXCEPT ![key] = value]
  /\ UNCHANGED <<status, bookData, error, generationProgress, apiKey, now>>
  /\ runs' = Collect(runs, NoRun)
  /\ outlines' = Collect(outlines, NoOutline)

\* A variant whose catch sets the status ERROR.
startOutlineGeneration_Failed(o) ==
  /\ o \in FreeSlot(outlines, OutlineIds)
  /\ status = "IDLE" \/ ReviewShown
  /\ config.topic # ""
  /\ IF apiKey
     THEN /\ status' = "GENERATING_OUTLINE"
          /\ error' = None
          /\ outlines' = [Collect(outlines, NoOutline) EXCEPT ![o] = [pc |-> "await", config |-> config, from |-> status, title |-> ""]]
     ELSE /\ status' = "ERROR"
          /\ error' = Some(MissingKeyMsg)
          /\ outlines' = [Collect(outlines, NoOutline) EXCEPT ![o] = [pc |-> "done", config |-> config, from |-> status, title |-> ""]]
  /\ UNCHANGED <<config, bookData, generationProgress, apiKey, now>>
  /\ runs' = Collect(runs, NoRun)

\* src/App.tsx:55-60 up to the await of generateBookOutline; without a
\* credential getClient throws (geminiService.ts:7) and :81-87 follow at once
startOutlineGeneration(o) ==
  /\ o \in FreeSlot(outlines, OutlineIds)
  /\ status = "IDLE" \/ ReviewShown                 \* the two buttons, :444 and :522
  /\ config.topic # ""                              \* :56
  /\ IF apiKey
     THEN /\ status' = "GENERATING_OUTLINE"
          /\ error' = None
          /\ outlines' = [Collect(outlines, NoOutline) EXCEPT ![o] = [pc |-> "await", config |-> config, from |-> status, title |-> ""]]
     ELSE /\ status' = "IDLE"
          /\ error' = Some(MissingKeyMsg)
          /\ outlines' = [Collect(outlines, NoOutline) EXCEPT ![o] = [pc |-> "done", config |-> config, from |-> status, title |-> ""]]
  /\ UNCHANGED <<config, bookData, generationProgress, apiKey, now>>
  /\ runs' = Collect(runs, NoRun)

\* src/App.tsx:62-80 after generateBookOutline returned data whose chapters
\* is an array (geminiService.ts:69-73), of any length including 0
OutlineResolved(o, providerTitle) ==
  /\ outlines[o].pc = "await"
  /\ \E n \in 0..MaxChapters :
       bookData' = Some([config |-> [outlines[o].config EXCEPT
                                       !.title = FinalTitle(providerTitle, outlines[o].config)],
                         coverImage |-> None,
                         outline |-> [k \in 1..n |-> OutlineChapter(k)]])
  /\ status' = "REVIEWING_OUTLINE"
  /\ outlines' = [Collect(outlines, NoOutline) EXCEPT ![o].pc = "done",
                                                      ![o].title = providerTitle]
  /\ UNCHANGED <<config, error, generationProgress, apiKey, now>>
  /\ runs' = Collect(runs, NoRun)

\* A variant whose catch surfaces the error and leaves the status alone.
OutlineRejected_Stuck(o) ==
  /\ outlines[o].pc = "await"
  /\ error' = Some(ProviderMsg)
  /\ outlines' = [Collect(outlines, NoOutline) EXCEPT ![o].pc = "done"]
  /\ UNCHANGED <<status, config, bookData, generationProgress, apiKey, now>>
  /\ runs' = Collect(runs, NoRun)

\* src/App.tsx:81-87: the request failed, the response was empty or it did
\* not parse (geminiService.ts:66, 76)
OutlineRejected(o) ==
  /\ outlines[o].pc = "await"
  /\ error' = Some(ProviderMsg)
  /\ status' = "IDLE"
  /\ outlines' = [Collect(outlines, NoOutline) EXCEPT ![o].pc = "done"]
  /\ UNCHANGED <<config, bookData, generationProgress, apiKey, now>>
  /\ runs' = Collect(runs, NoRun)

\* ------------------------------------------------------ the review panel
\* src/App.tsx:90-95
handleUpdateChapter ==
  /\ ReviewShown
  /\ \E index \in 1..Len(bookData[1].outline), field \in {"title", "description"} :
       bookData' = Some([bookData[1] EXCEPT !.outline[index][field] = "edited"])
  /\ UNCHANGED <<status, config, error, generationProgress, apiKey, now>>
  /\ runs' = Collect(runs, NoRun)
  /\ outlines' = Collect(outlines, NoOutline)

\* src/App.tsx:97-106
handleAddChapter ==
  /\ ReviewShown
  /\ Len(bookData[1].outline) < MaxChapters
  /\ \E t \in now..MaxClock :
       /\ now' = t
       /\ bookData' = Some([bookData[1] EXCEPT !.outline =
            Append(@, [id |-> <<Len(bookData[1].outline), t>>,
                       title |-> "New Chapter",
                       description |-> "Description of the new chapter",
                       content |-> None, imageUrl |-> None, status |-> "pending"])])
  /\ UNCHANGED <<status, config, error, generationProgress, apiKey>>
  /\ runs' = Collect(runs, NoRun)
  /\ outlines' = Collect(outlines, NoOutline)

\* bookData.outline.filter((_, i) => i !== index)
RemoveAt(s, index) == [k \in 1..(Len(s) - 1) |-> IF k < index THEN s[k] ELSE s[k + 1]]

\* src/App.tsx:108-112
handleRemoveChapter ==
  /\ ReviewShown
  /\ \E index \in 1..Len(bookData[1].outline) :
       bookData' = Some([bookData[1] EXCEPT !.outline = RemoveAt(@, index)])
  /\ UNCHANGED <<status, config, error, generationProgress, apiKey, now>>
  /\ runs' = Collect(runs, NoRun)
  /\ outlines' = Collect(outlines, NoOutline)

\* ------------------------------------------------------------ the reader
\* src/App.tsx:243
onBack ==
  /\ ReaderShown
  /\ status' = "REVIEWING_OUTLINE"
  /\ UNCHANGED <<config, bookData, error, generationProgress, apiKey, now>>
  /\ runs' = Collect(runs, NoRun)
  /\ outlines' = Collect(outlines, NoOutline)

\* src/App.tsx:114-120, called by handleSaveEdit (BookReader, part_001:146-151)
\* with the id of the chapter shown and the edit buffer
handleUpdateBookContent ==
  /\ ReaderShown
  /\ \E index \in 1..Len(bookData[1].outline), newContent \in EditedText :
       LET chapterId == bookData[1].outline[index].id IN
       bookData' = Some([bookData[1] EXCEPT !.outline =
          [k \in 1..Len(@) |-> IF @[k].id = chapterId
                               THEN [@[k] EXCEPT !.content = Some(newContent)]
                               ELSE @[k]]])
  /\ UNCHANGED <<status, config, error, generationProgress, apiKey, now>>
  /\ runs' = Collect(runs, NoRun)
  /\ outlines' = Collect(outlines, NoOutline)

\* src/App.tsx:122-128 as the closure that captured the Project book runs it
handleUpdateBookImage(book, chapterId, newImageUrl) ==
  Some([book EXCEPT !.outline =
          [k \in 1..Len(@) |-> IF @[k].id = chapterId
                               THEN [@[k] EXCEPT !.imageUrl = Some(newImageUrl)]
                               ELSE @[k]]])

\* BookReader.handleRegenerateImage (src/unnamed/part_001:153-157) for the
\* chapter shown, up to the await; the button is disabled while
\* regeneratingImage.  Without a credential the call rejects at once and the
\* catch of :159-161 only logs.
handleRegenerateImage ==
  /\ ReaderShown
  /\ regen.pc = "idle"
  /\ \E index \in 1..Len(bookData[1].outline) :
       regen' = IF apiKey
                THEN [pc |-> "await", bookData |-> bookData,
                      chapterId |-> Some(bookData[1].outline[index].id)]
                ELSE NoRegen
  /\ UNCHANGED <<status, config, bookData, error, generationProgress, apiKey, now,
                 clicks, pdf>>
  /\ runs' = Collect(runs, NoRun)
  /\ outlines' = Collect(outlines, NoOutline)

\* src/unnamed/part_001:157-158, 161-163: generateChapterIllustration
\* resolved, and onUpdateImage is called with the new URL
RegenResolved ==
  /\ regen.pc = "await"
  /\ bookData' = handleUpdateBookImage(regen.bookData[1], regen.chapterId[1], Url(0, 0))
  /\ regen' = NoRegen
  /\ UNCHANGED <<status, config, error, generationProgress, apiKey, now, clicks, pdf>>
  /\ runs' = Collect(runs, NoRun)
  /\ outlines' = Collect(outlines, NoOutline)

\* src/unnamed/part_001:159-163: generateChapterIllustration rejected
RegenRejected ==
  /\ regen.pc = "await"
  /\ regen' = NoRegen
  /\ UNCHANGED <<status, config, bookData, error, generationProgress, apiKey, now,
                 clicks, pdf>>
  /\ runs' = Collect(runs, NoRun)
  /\ outlines' = Collect(outlines, NoOutline)

\* ------------------------------------------------------------ the header
\* src/App.tsx:232-237, the Reset button of :273-278 (not in the reader)
reset ==
  /\ status # "IDLE"
  /\ ~ReaderShown
  /\ status' = "IDLE"
  /\ bookData' = None
  /\ config' = INITIAL_CONFIG
  /\ error' = None
  /\ UNCHANGED <<generationProgress, apiKey, now>>
  /\ runs' = Collect(runs, NoRun)
  /\ outlines' = Collect(outlines, NoOutline)

\* src/App.tsx:293  "Try Again" in the error banner
TryAgain ==
  /\ error # None
  /\ ~ReaderShown
  /\ status' = "IDLE"
  /\ UNCHANGED <<config, bookData, error, generationProgress, apiKey, now>>
  /\ runs' = Collect(runs, NoRun)
  /\ outlines' = Collect(outlines, NoOutline)

\* ApiKeyModal.handleSave (part_000:18-32), reached through "Add API Key"
\* (src/App.tsx:266): a key is stored, or the stored key is removed
handleSave ==
  /\ ~ReaderShown
  /\ apiKey' = ~apiKey
  /\ UNCHANGED <<status, config, bookData, error, generationProgress, now>>
  /\ runs' = Collect(runs, NoRun)
  /\ outlines' = Collect(outlines, NoOutline)

\* ------------------------------------------------- startFullGeneration
\* Variants of the skip rule: one that does not look at the illustration, one
\* that tests a status no chapter has.
Skippable_NoImage(chapter) ==
  chapter.status = "completed" /\ Truthy(chapter.content)

Skippable_WrongStatus(chapter) ==
  chapter.status = "done" /\ Truthy(chapter.content) /\ chapter.imageUrl # None

\* src/App.tsx:167   the skip rule
Skippable(chapter) ==
  chapter.status = "completed" /\ Truthy(chapter.content) /\ chapter.imageUrl # None

\* A variant that builds the Project anew around the sections, without the
\* spread of the previous one.
Publish_Anew(prev, newOutline) ==
  IF prev = None THEN None
  ELSE Some([config |-> INITIAL_CONFIG, coverImage |-> None, outline |-> newOutline])

\* setBookData(prev => prev ? ({ ...prev, outline: [...newOutline] }) : null)
Publish(prev, newOutline) ==
  IF prev = None THEN None ELSE Some([prev[1] EXCEPT !.outline = newOutline])

\* setBookData(prev => prev ? ({ ...prev, coverImage: coverUrl }) : null)
PublishCover(prev, coverUrl) ==
  IF prev = None THEN None ELSE Some([prev[1] EXCEPT !.coverImage = Some(coverUrl)])

\* src/App.tsx:139-145
updateProgress(run, msg) ==
  [current |-> run.completedSteps, total |-> run.totalSteps, message |-> msg]

\* A variant that asks for the illustration where the text is due and for the
\* text where the illustration is due.
Call_Swapped(op, i, context) ==
  [op |-> IF op = "text" THEN "image" ELSE IF op = "image" THEN "text" ELSE op,
   i |-> i, context |-> context]

\* A call of a provider operation for chapter i (0: the cover); for the text
\* the description of the chapter before is passed along (src/App.tsx:183-193).
Call(op, i, context) == [op |-> op, i |-> i, context |-> context]

\* A variant that passes the description of the chapter itself.
prevContext_Own(newOutline, i) == IF i > 1 THEN Some(newOutline[i].description) ELSE None

\* src/App.tsx:183
prevContext(newOutline, i) == IF i > 1 THEN Some(newOutline[i - 1].description) ELSE None

\* src/App.tsx:196   fullText += chunk
AppendChunk(fullText, chunk) == fullText \o chunk

\* A variant that discards the fragments received before the failure.
TextAfterFailure_Always(fullText) == ErrorText

\* src/App.tsx:202   fullText || "*Error generating text. ...*"
TextAfterFailure(fullText) == IF fullText # <<>> THEN fullText ELSE ErrorText

\* src/App.tsx:172-193: chapter i is marked 'generating_text' and its text
\* stream is opened
StartWriting(run, i) ==
  [run EXCEPT !.i = i, !.fullText = <<>>,
              !.was = run.newOutline[i].status, !.yielded = 0, !.streamFailed = FALSE,
              !.newOutline[i].status = "generating_text",
              !.calls = Append(@, Call("text", i, prevContext(run.newOutline, i)))]

\* src/App.tsx:205-211: the text sub-step of chapter run.i ends with the text
\* fullText, and the illustration is requested
StartIllustrating(run, fullText) ==
  [run EXCEPT !.fullText = fullText,
              !.newOutline[run.i].status = "generating_image",
              !.newOutline[run.i].content = Some(fullText),
              !.completedSteps = @ + 1,
              !.calls = Append(@, Call("image", run.i, None))]

\* What the run records of chapter run.i when its illustration call returns.
Generated(run, imageFailed) ==
  [k |-> run.i, was |-> run.was, yielded |-> run.yielded,
   streamFailed |-> run.streamFailed, imageFailed |-> imageFailed]

\* A variant that marks the chapter of a failed illustration 'error'.
ImageFailure_Error(run) ==
  [run EXCEPT !.newOutline[run.i].status = "error",
              !.completedSteps = @ + 1,
              !.last = Generated(run, TRUE)]

\* A variant that does not count the step of a failed illustration.
ImageFailure_NoStep(run) ==
  [run EXCEPT !.newOutline[run.i].status = "completed",
              !.last = Generated(run, TRUE)]

\* src/App.tsx:213-216, 219: the illustration call of chapter run.i rejected
ImageFailure(run) ==
  [run EXCEPT !.newOutline[run.i].status = "completed",
              !.completedSteps = @ + 1,
              !.last = Generated(run, TRUE)]

\* src/App.tsx:211-212, 219: the illustration call of chapter run.i resolved
ImageSuccess(run, imageUrl) ==
  [run EXCEPT !.newOutline[run.i].imageUrl = Some(imageUrl),
              !.newOutline[run.i].status = "completed",
              !.completedSteps = @ + 1,
              !.last = Generated(run, FALSE)]

\* src/App.tsx:163-222: the loop from index k up to its next suspension.
\* lp.run holds the locals, lp.progress the last value given to
\* setGenerationProgress, lp.dirty whether setBookData was called since the
\* step began.  The loop passes the chapters the skip rule matches; at the
\* first other chapter it opens the text stream and, with a credential,
\* suspends there ("text"); without one the stream and the illustration call
\* reject at once and the loop goes on.  Past the last chapter the run is over.
RECURSIVE Loop(_, _)
Loop(lp, k) ==
  IF k > Len(lp.run.newOutline)
  THEN [lp EXCEPT !.run.i = k, !.run.pc = "done", !.run.result = Some("COMPLETED")]
  ELSE IF Skippable(lp.run.newOutline[k])
  THEN Loop([lp EXCEPT !.run.completedSteps = @ + 2, !.run.skipped = @ \cup {k}], k + 1)
  ELSE LET writing == StartWriting(lp.run, k)
           progress == updateProgress(writing, <<"Writing Chapter", k>>)
       IN IF apiKey
          THEN [run |-> [writing EXCEPT !.pc = "text"], progress |-> progress, dirty |-> TRUE]
          ELSE LET illustrating ==
                     StartIllustrating([writing EXCEPT !.streamFailed = TRUE,
                                                       !.refused = @ + 1],
                                       TextAfterFailure(<<>>))
               IN Loop([run |-> [ImageFailure(illustrating) EXCEPT !.refused = @ + 1],
                        progress |-> updateProgress(illustrating, <<"Illustrating Chapter", k>>),
                        dirty |-> TRUE], k + 1)

\* The effects of a step of run r that ran the loop from index k: run holds
\* the locals, prev the bookData and dirty whether the step has called
\* setBookData with newOutline before the loop, progress the progress published.
ContinueLoop(r, run, prev, dirty, progress, k) ==
  LET lp == Loop([run |-> run, progress |-> progress, dirty |-> dirty], k) IN
  /\ runs' = [Collect(runs, NoRun) EXCEPT ![r] = lp.run]
  /\ bookData' = IF lp.dirty THEN Publish(prev, lp.run.newOutline) ELSE prev
  /\ generationProgress' = lp.progress
  /\ status' = IF lp.run.pc = "done" THEN "COMPLETED"
               ELSE IF run.pc = "idle" THEN "GENERATING_BOOK" ELSE status

\* src/App.tsx:131-152 up to the first suspension
startFullGeneration(r) ==
  /\ r \in FreeSlot(runs, RunIds)
  /\ ReviewShown \/ (status = "ERROR" /\ bookData # None)     \* buttons :528, :618
  /\ LET run == [NoRun EXCEPT !.config = bookData[1].config,
                              !.totalSteps = 1 + (Len(bookData[1].outline) * 2),
                              !.newOutline = bookData[1].outline]
         covering == [run EXCEPT !.calls = <<Call("cover", 0, None)>>]
     IN IF bookData[1].coverImage # None
        THEN ContinueLoop(r, [run EXCEPT !.completedSteps = @ + 1], bookData, FALSE,
                          generationProgress, 1)
        ELSE IF apiKey
        THEN /\ status' = "GENERATING_BOOK"
             /\ generationProgress' = updateProgress(run, <<"Designing book cover...">>)
             /\ runs' = [Collect(runs, NoRun) EXCEPT ![r] = [covering EXCEPT !.pc = "cover"]]
             /\ UNCHANGED bookData
        ELSE ContinueLoop(r, [covering EXCEPT !.completedSteps = @ + 1, !.refused = 1],
                          bookData, FALSE,
                          updateProgress(run, <<"Designing book cover...">>), 1)
  /\ UNCHANGED <<config, error, apiKey, now>>
  /\ outlines' = Collect(outlines, NoOutline)

\* src/App.tsx:152-153, 158-193: generateBookCover resolved
CoverResolved(r) ==
  /\ runs[r].pc = "cover"
  /\ ContinueLoop(r, [runs[r] EXCEPT !.completedSteps = @ + 1],
                  PublishCover(bookData, Url(r, 0)), FALSE, generationProgress, 1)
  /\ UNCHANGED <<config, error, apiKey, now>>
  /\ outlines' = Collect(outlines, NoOutline)

\* A variant in which a failed cover call ends the run.
CoverRejected_Abort(r) ==
  /\ runs[r].pc = "cover"
  /\ runs' = [Collect(runs, NoRun) EXCEPT ![r].pc = "done", ![r].result = Some("ERROR")]
  /\ status' = "ERROR"
  /\ error' = Some(ProviderMsg)
  /\ UNCHANGED <<config, bookData, generationProgress, apiKey, now>>
  /\ outlines' = Collect(outlines, NoOutline)

\* src/App.tsx:154-156, 158-193: generateBookCover rejected (the request
\* failed, or "No image generated")
CoverRejected(r) ==
  /\ runs[r].pc = "cover"
  /\ ContinueLoop(r, [runs[r] EXCEPT !.completedSteps = @ + 1], bookData, FALSE,
                  generationProgress, 1)
  /\ UNCHANGED <<config, error, apiKey, now>>
  /\ outlines' = Collect(outlines, NoOutline)

\* src/App.tsx:195-199: the stream yielded a fragment
StreamChunk(r) ==
  /\ runs[r].pc = "text"
  /\ runs[r].yielded < MaxChunks
  /\ LET chunk == Chunk(runs[r].yielded + 1)
         fullText == AppendChunk(runs[r].fullText, chunk)
         run == [runs[r] EXCEPT !.fullText = fullText,
                                !.yielded = @ + 1,
                                !.newOutline[runs[r].i].content = Some(fullText)]
     IN /\ runs' = [Collect(runs, NoRun) EXCEPT ![r] = run]
        /\ bookData' = Publish(bookData, run.newOutline)
  /\ UNCHANGED <<status, config, error, generationProgress, apiKey, now>>
  /\ outlines' = Collect(outlines, NoOutline)

\* src/App.tsx:205-211 and on: the text sub-step ended with the text fullText.
\* With a credential the run suspends on the illustration call ("image");
\* without one that call rejects at once and the loop goes on.
EndText(r, run, fullText) ==
  LET illustrating == StartIllustrating(run, fullText)
      progress == updateProgress(illustrating, <<"Illustrating Chapter", run.i>>)
  IN IF apiKey
     THEN /\ runs' = [Collect(runs, NoRun) EXCEPT ![r] = [illustrating EXCEPT !.pc = "image"]]
          /\ bookData' = Publish(bookData, illustrating.newOutline)
          /\ generationProgress' = progress
          /\ UNCHANGED status
     ELSE ContinueLoop(r, [ImageFailure(illustrating) EXCEPT !.refused = @ + 1],
                       bookData, TRUE, progress, run.i + 1)

\* src/App.tsx:195, 205-211: the stream ended normally
StreamDone(r) ==
  /\ runs[r].pc = "text"
  /\ EndText(r, runs[r], runs[r].fullText)
  /\ UNCHANGED <<config, error, apiKey, now>>
  /\ outlines' = Collect(outlines, NoOutline)

\* src/App.tsx:200-211: the provider failed the stream, at any fragment
StreamRejected(r) ==
  /\ runs[r].pc = "text"
  /\ EndText(r, [runs[r] EXCEPT !.streamFailed = TRUE],
             TextAfterFailure(runs[r].fullText))
  /\ UNCHANGED <<config, error, apiKey, now>>
  /\ outlines' = Collect(outlines, NoOutline)

\* src/App.tsx:211-212, 218-222 and the next iteration up to its suspension
ImageResolved(r) ==
  /\ runs[r].pc = "image"
  /\ ContinueLoop(r, ImageSuccess(runs[r], Url(r, runs[r].i)), bookData, TRUE,
                  generationProgress, runs[r].i + 1)
  /\ UNCHANGED <<config, error, apiKey, now>>
  /\ outlines' = Collect(outlines, NoOutline)

\* A variant in which the rejection of the illustration call escapes the
\* run: the invocation ends there and sets no status.
ImageRejected_Escapes(r) ==
  /\ runs[r].pc = "image"
  /\ runs' = [Collect(runs, NoRun) EXCEPT ![r].pc = "done"]
  /\ UNCHANGED <<status, config, bookData, error, generationProgress, apiKey, now>>
  /\ outlines' = Collect(outlines, NoOutline)

\* src/App.tsx:213-222 and the next iteration up to its suspension
ImageRejected(r) ==
  /\ runs[r].pc = "image"
  /\ ContinueLoop(r, ImageFailure(runs[r]), bookData, TRUE,
                  generationProgress, runs[r].i + 1)
  /\ UNCHANGED <<config, error, apiKey, now>>
  /\ outlines' = Collect(outlines, NoOutline)

\* ------------------------------------------------------- the PDF export
\* BookReader.handleDownloadPdf (src/unnamed/part_001:166-230).  Lengths on
\* the page are millimetres, lengths of a bitmap are pixels.
pdfWidth    == 210    \* :175  new jsPDF('p', 'mm', 'a4')
pdfHeight   == 297    \* :176
margin      == 10     \* :177
BitmapWidth == 1600   \* :190, :319  the 800 px print container at scale 2

\* src/unnamed/part_001:178
contentWidth == pdfWidth - (margin * 2)

\* The heights html2canvas may give a section, those for which the scaled
\* height is a whole number of millimetres: 266 (the cover, :323), 285, 304,
\* 570 and 5263 = 19 * 277.
BitmapHeights == {2240, 2400, 2560, 4800, 44320}
Bitmaps == [width : {BitmapWidth}, height : BitmapHeights]

\* src/unnamed/part_001:198   (imgProps.height * contentWidth) / imgProps.width
imgHeight(imgProps) == (imgProps.height * contentWidth) \div imgProps.width

\* pdf.addPage(): a new last page
addPage(pages) == Append(pages, <<>>)

\* pdf.addImage(imgData, 'JPEG', margin, y, contentWidth, h) on the last
\* page: the bitmap of section i, its top edge at y, scaled to the height h
addImage(pages, i, y, h) ==
  [pages EXCEPT ![Len(pages)] = Append(@, [input |-> i, y |-> y, height |-> h])]

\* src/unnamed/part_001:212-218   the loop that slices a long image
RECURSIVE Slice(_, _, _, _, _, _)
Slice(pages, i, h, heightLeft, position, pageAdded) ==
  IF heightLeft > 0
  THEN Slice(addImage(IF pageAdded THEN addPage(pages) ELSE pages, i, margin + position, h),
             i, h, heightLeft - (pdfHeight - (margin * 2)),
             position - (pdfHeight - (margin * 2)), TRUE)
  ELSE pages

\* src/unnamed/part_001:204-219
PlaceSection(pages, i, h) ==
  IF h <= pdfHeight
  THEN addImage(pages, i, margin, h)
  ELSE Slice(pages, i, h, h, 0, FALSE)

\* The state of the application, which the export does not touch.
AppUnchanged ==
  UNCHANGED <<status, config, bookData, error, generationProgress, apiKey,
              runs, outlines, clicks, now, regen>>

\* src/unnamed/part_001:166-171: the button is disabled while isGeneratingPdf
handleDownloadPdf ==
  /\ pdf.pc \notin {"timer", "capture"}
  /\ pdf' = [pdf EXCEPT !.pc = "timer", !.i = 0, !.pages = <<>>]
  /\ AppUnchanged

\* src/unnamed/part_001:171-189: after the 500 ms the document is made, with
\* its first page, and the first section is captured
TimerFired ==
  /\ pdf.pc = "timer"
  /\ pdf' = [pdf EXCEPT !.pc = "capture", !.i = 1, !.pages = <<<<>>>>]
  /\ AppUnchanged

\* src/unnamed/part_001:189-222: html2canvas resolved for section pdf.i; its
\* image is placed, and the next section gets a new page and is captured, or
\* the document is saved
CanvasResolved ==
  /\ pdf.pc = "capture"
  /\ LET placed == PlaceSection(pdf.pages, pdf.i, imgHeight(pdf.sections[pdf.i])) IN
       pdf' = IF pdf.i < Len(pdf.sections)
              THEN [pdf EXCEPT !.i = @ + 1, !.pages = addPage(placed)]
              ELSE [pdf EXCEPT !.pc = "saved", !.pages = placed]
  /\ AppUnchanged

\* src/unnamed/part_001:224-229: html2canvas rejected
CanvasRejected ==
  /\ pdf.pc = "capture"
  /\ pdf' = [pdf EXCEPT !.pc = "failed"]
  /\ AppUnchanged

\* ----------------------------------------------------------- behaviours
\* The editing surfaces: the review panel and the reader.
Edit ==
  \/ handleUpdateChapter
  \/ handleAddChapter
  \/ handleRemoveChapter
  \/ handleUpdateBookContent

\* No provider call is outstanding.
Quiescent ==
  /\ \A r \in RunIds : ~InFlight(runs[r])
  /\ \A o \in OutlineIds : ~InFlight(outlines[o])

\* A user who presses nothing while a provider call is outstanding.
Wait == Quiescent /\ UNCHANGED <<clicks, pdf, regen>>

\* One of the MaxClicks actions of a user who does not wait.
Click == clicks < MaxClicks /\ clicks' = clicks + 1 /\ UNCHANGED <<pdf, regen>>

\* A resumption of an async handler is no user action.
Resume == UNCHANGED <<clicks, pdf, regen>>

\* The user who waits: one invocation runs at a time, from its call to its
\* end.  Between invocations the user fills the form, presses the generate
\* buttons, Back, Reset and Try Again, and stores or removes the credential.
NextSeq ==
  \/ \E topic \in Topics : Wait /\ handleConfigChange("topic", topic)
  \/ \E o \in OutlineIds : Wait /\ startOutlineGeneration(o)
  \/ \E r \in RunIds : Wait /\ startFullGeneration(r)
  \/ Wait /\ onBack
  \/ Wait /\ reset
  \/ Wait /\ TryAgain
  \/ Wait /\ handleSave
  \/ \E o \in OutlineIds : Resume /\ OutlineResolved(o, "P")
  \/ \E o \in OutlineIds : Resume /\ OutlineRejected(o)
  \/ \E r \in RunIds : Resume /\ CoverResolved(r)
  \/ \E r \in RunIds : Resume /\ CoverRejected(r)
  \/ \E r \in RunIds : Resume /\ StreamChunk(r)
  \/ \E r \in RunIds : Resume /\ StreamDone(r)
  \/ \E r \in RunIds : Resume /\ StreamRejected(r)
  \/ \E r \in RunIds : Resume /\ ImageResolved(r)
  \/ \E r \in RunIds : Resume /\ ImageRejected(r)
SpecSeq == Init /\ [][NextSeq]_vars

\* The user who waits, and a provider that answers: every call outstanding
\* is resolved or rejected in the end, and every text stream ends or fails
\* after the at most MaxChunks fragments it yields.
ProviderAnswers ==
  /\ \A o \in OutlineIds :
       WF_vars(Resume /\ (OutlineResolved(o, "P") \/ OutlineRejected(o)))
  /\ \A r \in RunIds :
       WF_vars(Resume /\ (\/ CoverResolved(r) \/ CoverRejected(r)
                          \/ StreamDone(r) \/ StreamRejected(r)
                          \/ ImageResolved(r) \/ ImageRejected(r)))
FairSeq == SpecSeq /\ ProviderAnswers

\* No illustration is being redrawn in the reader.
NoRedraw == regen.pc = "idle"

\* The user who waits for the orchestrator and who, in the reader, has an
\* illustration redrawn and, while that call is outstanding, saves edits of
\* the text and does nothing else.
NextReader ==
  \/ \E topic \in Topics : NoRedraw /\ Wait /\ handleConfigChange("topic", topic)
  \/ \E o \in OutlineIds : NoRedraw /\ Wait /\ startOutlineGeneration(o)
  \/ \E r \in RunIds : NoRedraw /\ Wait /\ startFullGeneration(r)
  \/ NoRedraw /\ Wait /\ onBack
  \/ NoRedraw /\ Wait /\ reset
  \/ NoRedraw /\ Wait /\ TryAgain
  \/ NoRedraw /\ Wait /\ handleSave
  \/ ~NoRedraw /\ Wait /\ handleUpdateBookContent
  \/ Quiescent /\ handleRegenerateImage
  \/ RegenResolved
  \/ RegenRejected
  \/ \E o \in OutlineIds : Resume /\ OutlineResolved(o, "P")
  \/ \E o \in OutlineIds : Resume /\ OutlineRejected(o)
  \/ \E r \in RunIds : Resume /\ CoverResolved(r)
  \/ \E r \in RunIds : Resume /\ CoverRejected(r)
  \/ \E r \in RunIds : Resume /\ StreamChunk(r)
  \/ \E r \in RunIds : Resume /\ StreamDone(r)
  \/ \E r \in RunIds : Resume /\ StreamRejected(r)
  \/ \E r \in RunIds : Resume /\ ImageResolved(r)
  \/ \E r \in RunIds : Resume /\ ImageRejected(r)
SpecReader == Init /\ [][NextReader]_vars

\* The outline phase with every input of the title: the user who waits fills
\* in the topic and the title, asks for an outline, resets, stores or removes
\* the credential, and the provider answers with or without a title.
NextOutline ==
  \/ \E topic \in Topics : Wait /\ handleConfigChange("topic", topic)
  \/ \E title \in UserTitles : Wait /\ handleConfigChange("title", title)
  \/ \E o \in OutlineIds : Wait /\ startOutlineGeneration(o)
  \/ Wait /\ reset
  \/ Wait /\ handleSave
  \/ \E o \in OutlineIds, providerTitle \in ProviderTitles :
       Resume /\ OutlineResolved(o, providerTitle)
  \/ \E o \in OutlineIds : Resume /\ OutlineRejected(o)
SpecOutline == Init /\ [][NextOutline]_vars

\* The export of one to MaxSections sections of any of the heights above.
InitPdf ==
  /\ status = "IDLE"
  /\ config = INITIAL_CONFIG
  /\ bookData = None
  /\ error = None
  /\ generationProgress = [current |-> 0, total |-> 0, message |-> <<>>]
  /\ apiKey \in BOOLEAN
  /\ runs = [r \in RunIds |-> NoRun]
  /\ outlines = [o \in OutlineIds |-> NoOutline]
  /\ clicks = 0
  /\ now = 0
  /\ regen = NoRegen
  /\ \E n \in 1..MaxSections : \E sections \in [1..n -> Bitmaps] :
       pdf = [NoPdf EXCEPT !.sections = sections]

NextPdf ==
  \/ handleDownloadPdf
  \/ TimerFired
  \/ CanvasResolved
  \/ CanvasRejected
SpecPdf == InitPdf /\ [][NextPdf]_vars

\* The user who does not wait: every interleaving of up to MaxClicks user
\* actions, the edits of the review panel and the reader among them, with the
\* resumptions of the handlers in flight.
Next ==
  \/ \E topic \in Topics : Click /\ handleConfigChange("topic", topic)
  \/ \E o \in OutlineIds : Click /\ startOutlineGeneration(o)
  \/ \E r \in RunIds : Click /\ startFullGeneration(r)
  \/ Click /\ onBack
  \/ Click /\ reset
  \/ Click /\ TryAgain
  \/ Click /\ handleUpdateChapter
  \/ Click /\ handleAddChapter
  \/ Click /\ handleRemoveChapter
  \/ Click /\ handleUpdateBookContent
  \/ Click /\ handleSave
  \/ \E o \in OutlineIds : Resume /\ OutlineResolved(o, "P")
  \/ \E o \in OutlineIds : Resume /\ OutlineRejected(o)
  \/ \E r \in RunIds : Resume /\ CoverResolved(r)
  \/ \E r \in RunIds : Resume /\ CoverRejected(r)
  \/ \E r \in RunIds : Resume /\ StreamChunk(r)
  \/ \E r \in RunIds : Resume /\ StreamDone(r)
  \/ \E r \in RunIds : Resume /\ StreamRejected(r)
  \/ \E r \in RunIds : Resume /\ ImageResolved(r)
  \/ \E r \in RunIds : Resume /\ ImageRejected(r)
Spec == Init /\ [][Next]_vars

\* ------------------------------------------------------------- vocabulary
\* The run in slot r has been called (and its record not yet dropped).
Started(r) == runs[r].pc # "idle"

\* A step in which startFullGeneration is called and takes slot r.
Begins(r) == ~InFlight(runs[r]) /\ runs'[r].pc # "idle"

\* A step in which the run in slot r is resumed.
Continues(r) == InFlight(runs[r]) /\ runs'[r] # runs[r]

\* A step of the run in slot r.
Steps(r) == Begins(r) \/ Continues(r)

\* The sections as the run in slot r has them before and after a step of it;
\* before its first step they are the sections of the Project.
Before(r) == IF InFlight(runs[r]) THEN runs[r].newOutline ELSE bookData[1].outline
After(r)  == runs'[r].newOutline

\* The sections the loop of run r reaches in a step: those past the one it
\* was at, up to the one it suspends at (all the rest when it ends).
Examined(r) ==
  {k \in 1..Len(After(r)) :
     /\ k > (IF InFlight(runs[r]) THEN runs[r].i ELSE 0)
     /\ k <= runs'[r].i}

\* The text of a section, "" when it has none.
ContentText(chapter) == IF chapter.content = None THEN <<>> ELSE chapter.content[1]

\* The skip rule as the specification words it: done, content, illustration.
SkipRule(chapter) ==
  /\ chapter.status = "completed"
  /\ ContentText(chapter) # <<>>
  /\ chapter.imageUrl # None

\* The first m fragments of a stream, concatenated in arrival order.
RECURSIVE Text(_)
Text(m) == IF m = 0 THEN <<>> ELSE Text(m - 1) \o Chunk(m)

\* What the text sub-step leaves of a stream that yielded m fragments.
Kept(m, failed) == IF failed /\ m = 0 THEN ErrorText ELSE Text(m)

IsPrefix(a, b) == Len(a) <= Len(b) /\ SubSeq(b, 1, Len(a)) = a

\* The run with the record run called the provider operation op for chapter k.
Called(run, op, k) ==
  \E n \in 1..Len(run.calls) : run.calls[n].op = op /\ run.calls[n].i = k

\* The Project shows the sections as run r has them.
Published(r) == bookData # None /\ bookData[1].outline = runs[r].newOutline

\* ----------------------------------------------------------------- claims
\* C1: a run computes stepsTotal = 1 + 2N for the N sections it was called
\* with, has completed 0 steps while the cover call is outstanding, and has
\* completed stepsTotal steps when it ends: 1 for the cover and 2 for every
\* section, whatever was skipped or failed.
C1_StepAccounting ==
  \A r \in RunIds : Started(r) =>
    /\ runs[r].totalSteps = 1 + 2 * Len(runs[r].newOutline)
    /\ runs[r].pc = "cover" => runs[r].completedSteps = 0
    /\ runs[r].pc = "done" => /\ runs[r].completedSteps = runs[r].totalSteps
                              /\ runs[r].result = Some("COMPLETED")

\* A run over two sections has ended with one section skipped and the other
\* generated, its illustration call having failed.
C1_Witness ==
  \E r \in RunIds :
    /\ runs[r].pc = "done"
    /\ Len(runs[r].newOutline) = 2
    /\ Cardinality(runs[r].skipped) = 1
    /\ runs[r].last.imageFailed
    /\ runs[r].completedSteps = 5

\* C2 (as claimed): when the illustration call of section k failed, the run
\* goes on to the later sections, and section k is done and has no
\* illustrationRef from then to the end of the run.
C2_ImageFailureIsolated ==
  \A r \in RunIds : (Started(r) /\ runs[r].last.imageFailed) =>
    /\ runs[r].i > runs[r].last.k
    /\ runs[r].pc = "done" => runs[r].i = Len(runs[r].newOutline) + 1
    /\ runs[r].newOutline[runs[r].last.k].status = "completed"
    /\ runs[r].newOutline[runs[r].last.k].imageUrl = None

\* C3: a stream that failed after m fragments leaves the section with the
\* concatenation of the m fragments when m > 0 and with the placeholder when
\* m = 0; the section then is illustrating, later done with that content,
\* and the run goes on and ends completed.
C3_StreamFailureKeepsText ==
  \A r \in RunIds :
    /\ (runs[r].pc = "image" /\ runs[r].streamFailed) =>
         /\ runs[r].newOutline[runs[r].i].content =
              Some(IF runs[r].yielded > 0 THEN Text(runs[r].yielded) ELSE ErrorText)
         /\ runs[r].newOutline[runs[r].i].status = "generating_image"
         /\ Published(r)
    /\ (Started(r) /\ runs[r].last.streamFailed) =>
         /\ runs[r].newOutline[runs[r].last.k].content =
              Some(IF runs[r].last.yielded > 0 THEN Text(runs[r].last.yielded) ELSE ErrorText)
         /\ runs[r].newOutline[runs[r].last.k].status = "completed"
         /\ runs[r].i > runs[r].last.k
         /\ Published(r)
    /\ runs[r].pc = "done" => runs[r].result = Some("COMPLETED")

\* The stream of one section failed before its first fragment, the section is
\* done, and the stream of the next failed after fragments.
C3_Witness ==
  \E r \in RunIds :
    /\ runs[r].pc = "image"
    /\ runs[r].streamFailed
    /\ runs[r].yielded = MaxChunks
    /\ runs[r].last.streamFailed
    /\ runs[r].last.yielded = 0

\* C4 (as claimed): a run all of whose provider calls were refused for the
\* missing credential ends failed, with the credential message as the error.
C4_MissingCredentialFails ==
  \A r \in RunIds :
    (runs[r].pc = "done" /\ runs[r].refused > 0 /\ runs[r].refused = Len(runs[r].calls))
      => /\ runs[r].result = Some("ERROR")
         /\ status = "ERROR"
         /\ error = Some(MissingKeyMsg)

\* C5: a section that is done with content and illustration when the loop
\* reaches it is skipped: no provider call for it, its record unchanged from
\* then on, 2 steps counted.  A section that is not done then is never
\* skipped: it gets a text call and an illustration call, and the text of
\* this run's stream replaces what content it had.  No section is touched
\* before the loop reaches it.
C5_SkipRule ==
  [][\A r \in RunIds : Steps(r) =>
       /\ \A k \in 1..Len(After(r)) :
            /\ (k \in Examined(r) /\ SkipRule(Before(r)[k])) =>
                 /\ k \in runs'[r].skipped
                 /\ ~Called(runs'[r], "text", k) /\ ~Called(runs'[r], "image", k)
            /\ (k \in Examined(r) /\ Before(r)[k].status # "completed") =>
                 /\ k \notin runs'[r].skipped
                 /\ Called(runs'[r], "text", k)
            /\ (k \in runs'[r].skipped \/ k > runs'[r].i) => After(r)[k] = Before(r)[k]
       /\ runs'[r].pc = "text" => runs'[r].completedSteps = 1 + 2 * (runs'[r].i - 1)
       /\ runs'[r].pc = "image" =>
            After(r)[runs'[r].i].content = Some(Kept(runs'[r].yielded, runs'[r].streamFailed))
       /\ runs'[r].last.k # 0 =>
            /\ After(r)[runs'[r].last.k].content =
                 Some(Kept(runs'[r].last.yielded, runs'[r].last.streamFailed))
            /\ Called(runs'[r], "image", runs'[r].last.k)]_vars

\* A resumed run has skipped one section and is writing the next.
C5_Witness ==
  \E r \in RunIds :
    /\ runs[r].pc = "text"
    /\ runs[r].i = 2
    /\ runs[r].skipped = {1}
    /\ runs[r].completedSteps = 3

\* C6 (as claimed): a run called on a Project whose sections are all done
\* with content and illustration makes no provider call and leaves the
\* Project as it was.
C6_AllDoneNoCalls ==
  [][\A r \in RunIds :
       (/\ Begins(r)
        /\ Len(bookData[1].outline) > 0
        /\ \A k \in 1..Len(bookData[1].outline) : SkipRule(bookData[1].outline[k]))
         => runs'[r].calls = <<>> /\ bookData' = bookData]_vars

\* C6 (amended): a run called on a Project that has a cover and whose
\* sections are all done with content and illustration makes no provider
\* call, ends in the step that called it and leaves the Project as it was;
\* so does every further run on it.
C6_AllDoneWithCoverNoCalls ==
  [][\A r \in RunIds :
       (/\ Begins(r)
        /\ bookData[1].coverImage # None
        /\ \A k \in 1..Len(bookData[1].outline) : SkipRule(bookData[1].outline[k]))
         => /\ runs'[r].pc = "done"
            /\ runs'[r].calls = <<>>
            /\ bookData' = bookData]_vars

\* A run on a finished Project with a cover and two sections has ended.
C6_Witness ==
  \E r \in RunIds :
    /\ runs[r].pc = "done"
    /\ runs[r].calls = <<>>
    /\ runs[r].skipped = {1, 2}
    /\ bookData[1].coverImage # None

\* C7 (as claimed): on resume every section that is done when the loop
\* reaches it is skipped and keeps its content and illustration.
C7_DoneIsSkipped ==
  [][\A r \in RunIds : Steps(r) =>
       \A k \in Examined(r) :
         Before(r)[k].status = "completed" =>
           k \in runs'[r].skipped /\ After(r)[k] = Before(r)[k]]_vars

\* C7 (amended): on resume the sections skipped are exactly those that are
\* done and have non-empty content and an illustrationRef; they keep their
\* record.  Every other section, also one that is done but lacks content or
\* illustration, is generated again: text call, then illustration call.
C7_DoneAndCompleteIsSkipped ==
  [][\A r \in RunIds : Steps(r) =>
       /\ \A k \in Examined(r) :
            /\ k \in runs'[r].skipped <=> SkipRule(Before(r)[k])
            /\ k \notin runs'[r].skipped => Called(runs'[r], "text", k)
            /\ (k \notin runs'[r].skipped /\ k < runs'[r].i) => Called(runs'[r], "image", k)
       /\ \A k \in runs'[r].skipped : After(r)[k] = Before(r)[k]
       /\ runs'[r].pc = "image" => Called(runs'[r], "image", runs'[r].i)]_vars

\* A resumed run has ended that skipped a section and generated again a
\* section that was done.
C7_Witness ==
  \E r \in RunIds :
    /\ runs[r].pc = "done"
    /\ runs[r].skipped # {}
    /\ runs[r].last.k # 0
    /\ runs[r].last.was = "completed"

\* The section run r is writing, in the Project before and after a step.
Writing(r)      == bookData[1].outline[runs[r].i]
WritingAfter(r) == bookData'[1].outline[runs[r].i]

\* Run r takes a step of its text sub-step.
TextStep(r) == runs[r].pc = "text" /\ runs'[r] # runs[r] /\ bookData # None /\ bookData' # None

\* C8 (as claimed): from the snapshot that sets a section to writing until
\* the end of its text sub-step, the content in every snapshot extends the
\* content in the one before.
C8_StreamingMonotone ==
  [][\A r \in RunIds :
       TextStep(r) => IsPrefix(ContentText(Writing(r)), ContentText(WritingAfter(r)))]_vars

\* C9 (as claimed): no step of a run takes the content of a section from
\* non-empty to empty.
C9_ContentNeverCleared ==
  [][\A r \in RunIds : Steps(r) =>
       \A k \in 1..Len(After(r)) :
         ContentText(Before(r)[k]) # <<>> => ContentText(After(r)[k]) # <<>>]_vars

\* C10 (as claimed): the Project has one writer at a time: a run in flight
\* takes a step, and so writes to the Project, only while the status is
\* generating; the review panel and the reader edit only while it is not; and
\* no two runs are in flight together.
C10_SingleWriter ==
  [][/\ \A r \in RunIds : Continues(r) => status = "GENERATING_BOOK"
     /\ Edit => status # "GENERATING_BOOK"
     /\ Cardinality({r \in RunIds : InFlight(runs'[r])}) <= 1]_vars

\* The place of a provider call in the order cover, text(1), image(1),
\* text(2), image(2), ...
Rank(call) ==
  IF call.op = "cover" THEN 0 ELSE IF call.op = "text" THEN 2 * call.i - 1 ELSE 2 * call.i

\* The call of run r that has not returned yet, if any, is its last one.
Outstanding(r, n) == n = Len(runs[r].calls) /\ InFlight(runs[r])

\* C11: the provider calls of a run are issued in the order cover, text(1),
\* image(1), text(2), image(2), ...: the text call of a section gets the
\* description of the section before it, is followed by the illustration
\* call of the same section, and every call but the last has returned when
\* the next is issued (its section has its text, or is done), so that at most
\* the last call of the run is outstanding.
C11_CallsInOrder ==
  \A r \in RunIds : \A n \in 1..Len(runs[r].calls) :
    LET call == runs[r].calls[n] IN
    /\ n > 1 => Rank(runs[r].calls[n - 1]) < Rank(call)
    /\ call.op = "cover" => n = 1 /\ call.i = 0
    /\ call.op # "cover" => call.i \in 1..Len(runs[r].newOutline)
    /\ call.op = "text" => call.context = prevContext(runs[r].newOutline, call.i)
    /\ call.op = "image" => n > 1 /\ runs[r].calls[n - 1] =
                                       [call EXCEPT !.op = "text", !.context = runs[r].calls[n - 1].context]
    /\ Outstanding(r, n) => runs[r].pc = call.op /\ runs[r].i = call.i
    /\ (call.op = "text" /\ ~Outstanding(r, n)) =>
         /\ runs[r].newOutline[call.i].content # None
         /\ n < Len(runs[r].calls) \/ runs[r].pc = "done"
    /\ (call.op = "image" /\ ~Outstanding(r, n)) =>
         /\ runs[r].newOutline[call.i].status = "completed"
         /\ runs[r].i > call.i

\* A run has made the cover call and the two calls of each of two sections,
\* and the last of them is outstanding.
C11_Witness ==
  \E r \in RunIds :
    /\ Len(runs[r].calls) = 5
    /\ runs[r].pc = "image"
    /\ runs[r].i = 2

\* A step in which startOutlineGeneration is called and takes slot o.
OutlineBegins(o) == ~InFlight(outlines[o]) /\ outlines'[o].pc # "idle"

\* A step in which the invocation of startOutlineGeneration in slot o returns.
OutlineEnds(o) == outlines'[o].pc = "done"

\* C12: startOutlineGeneration is called from idle or reviewing with a
\* non-empty topic; while its provider call is outstanding the status is
\* outlining; it returns with the status reviewing and a Project present, or
\* with the status idle and an error surfaced, the Project then being the one
\* there was.  The status is outlining only while such a call is outstanding.
C12_OutlineTransitions ==
  [][/\ \A o \in OutlineIds :
          /\ OutlineBegins(o) =>
               /\ status \in {"IDLE", "REVIEWING_OUTLINE"}
               /\ config.topic # ""
          /\ outlines'[o].pc = "await" => status' = "GENERATING_OUTLINE" /\ error' = None
          /\ OutlineEnds(o) =>
               \/ status' = "REVIEWING_OUTLINE" /\ bookData' # None /\ error' = None
               \/ status' = "IDLE" /\ error' # None /\ bookData' = bookData
     /\ status' = "GENERATING_OUTLINE" => \E o \in OutlineIds : outlines'[o].pc = "await"]_vars

\* An invocation from the review panel has failed: the status is idle, the
\* error is shown and the Project of the earlier outline is still there.
C12_Witness ==
  \E o \in OutlineIds :
    /\ outlines[o].pc = "done"
    /\ status = "IDLE"
    /\ error = Some(ProviderMsg)
    /\ bookData # None

\* C13 (as claimed): an outline call made without a credential sets the
\* status failed and leaves the Project of a prior outline as it was.
C13_NoCredentialOutlineFails ==
  [][\A o \in OutlineIds :
       (OutlineBegins(o) /\ ~apiKey) => status' = "ERROR" /\ bookData' = bookData]_vars

\* C13 (amended): an outline call made without a credential returns at once
\* with the status idle and the credential message as the error, and leaves
\* the Project of a prior outline as it was.
C13_NoCredentialOutlineIdle ==
  [][\A o \in OutlineIds :
       (OutlineBegins(o) /\ ~apiKey) =>
         /\ OutlineEnds(o)
         /\ status' = "IDLE"
         /\ error' = Some(MissingKeyMsg)
         /\ IncludesApiKey(error'[1])
         /\ bookData' = bookData]_vars

\* The outline was asked for again from the review panel after the
\* credential was removed: the Project reviewed is still there.
C13_Witness ==
  \E o \in OutlineIds :
    /\ outlines[o].pc = "done"
    /\ ~apiKey
    /\ status = "IDLE"
    /\ error = Some(MissingKeyMsg)
    /\ bookData # None
    /\ Len(bookData[1].outline) > 0

\* C14 (as claimed): an invocation of startOutlineGeneration that ends with
\* a Project and the status reviewing has got at least one section from the
\* provider.
C14_OutlineHasSections ==
  [][\A o \in OutlineIds :
       (OutlineEnds(o) /\ status' = "REVIEWING_OUTLINE") =>
         bookData' # None /\ Len(bookData'[1].outline) >= 1]_vars

\* C15: the Project an outline success stores is a new one: it has the
\* provider's sections in the provider's order, each pending, without content
\* and without illustration, and it has no cover; so nothing of the Project
\* there was before is in it, also when the outline was asked for from the
\* review panel.
C15_OutlineReplacesProject ==
  [][\A o \in OutlineIds :
       (OutlineEnds(o) /\ status' = "REVIEWING_OUTLINE") =>
         /\ bookData' # None
         /\ bookData'[1].coverImage = None
         /\ DOMAIN bookData'[1] = {"config", "coverImage", "outline"}
         /\ bookData'[1].config.topic = outlines[o].config.topic
         /\ \A k \in 1..Len(bookData'[1].outline) :
              /\ bookData'[1].outline[k].title = ProviderTitle(k)
              /\ bookData'[1].outline[k].description = ProviderDescription(k)
              /\ bookData'[1].outline[k].status = "pending"
              /\ bookData'[1].outline[k].content = None
              /\ bookData'[1].outline[k].imageUrl = None]_vars

\* An outline asked for from the review panel of a generated book has
\* succeeded: the Project has two pending sections and no cover.
C15_Witness ==
  \E o \in OutlineIds :
    /\ outlines[o].pc = "done"
    /\ outlines[o].from = "REVIEWING_OUTLINE"
    /\ generationProgress.total > 1
    /\ status = "REVIEWING_OUTLINE"
    /\ Len(bookData[1].outline) = 2
    /\ bookData[1].coverImage = None

\* C16 (as claimed): the ids of the sections of the Project are pairwise
\* distinct.
C16_IdsUnique ==
  bookData # None =>
    \A k, j \in 1..Len(bookData[1].outline) :
      bookData[1].outline[k].id = bookData[1].outline[j].id => k = j

\* C17 (as claimed): the status becomes completed or failed only in a step
\* taken while it is generating, or in the step of a call of
\* startFullGeneration, which sets generating first (src/App.tsx:132).
C17_EndsOnlyFromGenerating ==
  [][(status' \in {"COMPLETED", "ERROR"} /\ status' # status) =>
       \/ status = "GENERATING_BOOK"
       \/ \E r \in RunIds : Begins(r)]_vars

\* A step in which run r gets past its cover step: its call, when no cover
\* call is left outstanding, or the return of that call.
PastCover(r) ==
  \/ Begins(r) /\ runs'[r].pc # "cover"
  \/ Continues(r) /\ runs[r].pc = "cover"

\* C18: a run called on a Project with a cover makes no cover call and
\* keeps the cover; a run called on a Project without one makes one cover
\* call, after which the Project has the cover returned or, the call having
\* failed, still none, and the run goes on either way.  The cover step
\* counts 1: the loop starts with 1 step completed, each section passed
\* adding 2.
C18_CoverStep ==
  [][\A r \in RunIds :
       /\ Begins(r) =>
            IF bookData[1].coverImage # None
            THEN /\ ~Called(runs'[r], "cover", 0)
                 /\ runs'[r].pc # "cover"
                 /\ bookData'[1].coverImage = bookData[1].coverImage
            ELSE /\ runs'[r].calls[1] = Call("cover", 0, None)
                 /\ runs'[r].pc = "cover" => runs'[r].completedSteps = 0 /\ bookData' = bookData
       /\ (Continues(r) /\ runs[r].pc = "cover") =>
            bookData'[1].coverImage \in {Some(Url(r, 0)), None}
       /\ PastCover(r) =>
            /\ runs'[r].pc \in {"text", "done"}
            /\ runs'[r].completedSteps = 1 + 2 * (runs'[r].i - 1)
            /\ runs'[r].pc = "done" => runs'[r].result = Some("COMPLETED") /\ status' = "COMPLETED"
       /\ Steps(r) =>
            Cardinality({n \in 1..Len(runs'[r].calls) : runs'[r].calls[n].op = "cover"}) <= 1]_vars

\* The cover call of a run has failed and the run is writing its first
\* section, with 1 step completed and the Project without a cover.
C18_Witness ==
  \E r \in RunIds :
    /\ runs[r].pc = "text"
    /\ runs[r].i = 1
    /\ Called(runs[r], "cover", 0)
    /\ runs[r].completedSteps = 1
    /\ bookData[1].coverImage = None

\* C19: in every state, a section of the Project whose status is pending,
\* generating_text or generating_image has no imageUrl.
C19_NoIllustrationBeforeImageStep ==
  \A p \in 1..Len(bookData) : \A k \in 1..Len(bookData[p].outline) :
    bookData[p].outline[k].status \in {"pending", "generating_text", "generating_image"}
      => bookData[p].outline[k].imageUrl = None

\* C20: when an outline call returns, the title of the new Project is the
\* title of the response if that is not empty, otherwise the title the user
\* gave in the form if that is not empty, otherwise the topic.
C20_TitleFallback ==
  [][\A o \in OutlineIds :
       (outlines[o].pc = "await" /\ OutlineEnds(o) /\ status' = "REVIEWING_OUTLINE") =>
         /\ outlines'[o].title # "" =>
              bookData'[1].config.title = outlines'[o].title
         /\ (outlines'[o].title = "" /\ config.title # "") =>
              bookData'[1].config.title = config.title
         /\ (outlines'[o].title = "" /\ config.title = "") =>
              bookData'[1].config.title = config.topic]_vars

\* An outline call has returned without a title to a user who gave one, and
\* the Project has the user's title.
C20_Witness ==
  \E o \in OutlineIds :
    /\ outlines[o].pc = "done"
    /\ outlines[o].title = ""
    /\ config.title = "U"
    /\ status = "REVIEWING_OUTLINE"
    /\ bookData[1].config.title = "U"

\* ------------------------------------------------------- the PDF export
\* The height of the page between its margins.
contentHeight == pdfHeight - (2 * margin)

\* The least number of parts of size b that hold a.
Ceil(a, b) == (a + b - 1) \div b

\* The pages on which an image of section i is placed.
PagesOf(i) ==
  {p \in 1..Len(pdf.pages) : \E n \in 1..Len(pdf.pages[p]) : pdf.pages[p][n].input = i}

\* C21: a saved document has, for every section, ceil(H / C) pages, H the
\* scaled height of its bitmap and C the height of the page between the
\* margins; every page holds the image of one section, and the pages of the
\* sections come in the order of the sections.
C21_PageCount ==
  pdf.pc = "saved" =>
    /\ \A i \in 1..Len(pdf.sections) :
         Cardinality(PagesOf(i)) = Ceil(imgHeight(pdf.sections[i]), contentHeight)
    /\ \A p \in 1..Len(pdf.pages) : Len(pdf.pages[p]) = 1
    /\ \A p, q \in 1..Len(pdf.pages) :
         p < q => pdf.pages[p][1].input <= pdf.pages[q][1].input

\* The rows of an image that show on the page it is placed on: the page
\* shows what lies between its top edge, 0, and its bottom edge, pdfHeight.
Visible(img) ==
  [from |-> IF img.y < 0 THEN 0 - img.y ELSE 0,
   to   |-> IF pdfHeight - img.y < img.height THEN pdfHeight - img.y ELSE img.height]

\* The j-th page (j = 0, 1, ...) of section i.
PageOf(i, j) == CHOOSE p \in PagesOf(i) : Cardinality({q \in PagesOf(i) : q < p}) = j

\* C22: in a saved document, the j-th page of a section that has several
\* pages places the image j * C above the top margin, and the rows of the
\* image that show on it are those from j * C to (j + 1) * C, or to H on the
\* last page.
C22_Bands ==
  pdf.pc = "saved" =>
    \A i \in 1..Len(pdf.sections) :
      Cardinality(PagesOf(i)) > 1 =>
        \A j \in 0..(Cardinality(PagesOf(i)) - 1) :
          LET img == pdf.pages[PageOf(i, j)][1]
              H   == imgHeight(pdf.sections[i])
          IN /\ img.y = margin - (j * contentHeight)
             /\ Visible(img) = [from |-> j * contentHeight,
                                to   |-> IF (j + 1) * contentHeight < H
                                         THEN (j + 1) * contentHeight ELSE H]

\* ----------------------------------------------------------- termination
\* C23: with a provider that answers, the status GENERATING_BOOK leads to
\* COMPLETED or ERROR with no run left in flight, and the status
\* GENERATING_OUTLINE leads to another status with no outline call left in
\* flight.
C23_Termination ==
  /\ (status = "GENERATING_BOOK") ~>
       (status \in {"COMPLETED", "ERROR"} /\ \A r \in RunIds : ~InFlight(runs[r]))
  /\ (status = "GENERATING_OUTLINE") ~>
       (status # "GENERATING_OUTLINE" /\ \A o \in OutlineIds : ~InFlight(outlines[o]))

\* A run that called the provider for the cover and for a section has ended.
C23_Witness ==
  \E r \in RunIds :
    /\ runs[r].pc = "done"
    /\ Called(runs[r], "cover", 0)
    /\ Called(runs[r], "image", 1)
    /\ runs[r].refused = 0
    /\ status = "COMPLETED"

\* ------------------------------------------------------------- progress
\* C24: after every step of a run the progress published has stepsTotal =
\* 1 + 2N for the N sections of the run and stepsCompleted at most
\* stepsTotal; a resumption of the run does not lower stepsCompleted; and
\* when the run ends and the status becomes COMPLETED, the progress
\* published has stepsCompleted = stepsTotal.
C24_ProgressPublished ==
  [][\A r \in RunIds : Steps(r) =>
       /\ generationProgress'.total = 1 + 2 * Len(After(r))
       /\ generationProgress'.current <= generationProgress'.total
       /\ Continues(r) => generationProgress'.current >= generationProgress.current
       /\ (runs'[r].pc = "done" /\ status' = "COMPLETED") =>
            generationProgress'.current = generationProgress'.total]_vars

\* ------------------------------------------------------ section statuses
\* The place of a status in the order of a section's generation.
Phase(st) ==
  IF st = "generating_text" THEN 1
  ELSE IF st = "generating_image" THEN 2
  ELSE IF st = "completed" THEN 3 ELSE 0

\* The last provider call of a run.
LastCall(run) == run.calls[Len(run.calls)]

\* What the Project shows of the sections of the runs: while the text call
\* of a section is outstanding the section is generating_text, while its
\* illustration call is outstanding it is generating_image, the text call
\* having come just before; a section a run has generated is completed,
\* whatever failed; and no section has the status error.
StatusShown ==
  /\ \A r \in RunIds : InFlight(runs[r]) \/ runs[r].pc = "done" =>
       /\ runs[r].pc = "text" =>
            /\ bookData[1].outline[runs[r].i].status = "generating_text"
            /\ LastCall(runs[r]) = Call("text", runs[r].i, LastCall(runs[r]).context)
       /\ runs[r].pc = "image" =>
            /\ bookData[1].outline[runs[r].i].status = "generating_image"
            /\ LastCall(runs[r]) = Call("image", runs[r].i, None)
            /\ runs[r].calls[Len(runs[r].calls) - 1].op = "text"
            /\ runs[r].calls[Len(runs[r].calls) - 1].i = runs[r].i
       /\ \A k \in 1..Len(runs[r].newOutline) :
            (k < runs[r].i /\ k \notin runs[r].skipped) =>
              bookData[1].outline[k].status = "completed"
  /\ bookData # None =>
       \A k \in 1..Len(bookData[1].outline) : bookData[1].outline[k].status # "error"

\* C25: after every step the Project shows the section of an outstanding
\* text call as generating_text, that of an outstanding illustration call as
\* generating_image with the text call just before it, every section a run
\* has generated as completed, and no section as error; and the status of
\* the section a run is at only moves forward in the order generating_text,
\* generating_image, completed, one place at a time when the provider is
\* called with a credential, each status published in the step that sets it.
C25_StatusOrder ==
  [][/\ StatusShown'
     /\ \A r \in RunIds : (Continues(r) /\ runs[r].pc \in {"text", "image"}) =>
          LET before == Phase(Before(r)[runs[r].i].status)
              after  == Phase(After(r)[runs[r].i].status)
          IN /\ before >= 1
             /\ after >= before
             /\ apiKey => after <= before + 1
             /\ runs[r].pc = "image" => after = 3
             /\ bookData'[1].outline[runs[r].i].status = After(r)[runs[r].i].status]_vars

\* A run with a credential has generated a section whose text stream and
\* illustration call both failed, and the section shows as completed.
C25_Witness ==
  \E r \in RunIds :
    /\ runs[r].pc \in {"text", "image", "done"}
    /\ runs[r].refused = 0
    /\ runs[r].last.k # 0
    /\ runs[r].last.streamFailed /\ runs[r].last.imageFailed
    /\ bookData[1].outline[runs[r].last.k].status = "completed"

\* ------------------------------------------------------------ continuity
\* The provider calls run r makes in a step.
NewCalls(r) ==
  {runs'[r].calls[n] :
     n \in ((IF InFlight(runs[r]) THEN Len(runs[r].calls) ELSE 0) + 1)..Len(runs'[r].calls)}

\* C26: every text call a run makes for a section after the first passes the
\* description the section before it had when the run was called, which no
\* step of the run changes, and the text call for the first section passes
\* no context.
C26_ContinuityContext ==
  [][\A r \in RunIds : Steps(r) =>
       /\ \A k \in 1..Len(After(r)) : After(r)[k].description = Before(r)[k].description
       /\ \A c \in NewCalls(r) : c.op = "text" =>
            c.context = IF c.i > 1 THEN Some(Before(r)[c.i - 1].description) ELSE None]_vars

\* A run has skipped the first section and called for the text of the
\* second, passing the description of the first.
C26_Witness ==
  \E r \in RunIds :
    /\ runs[r].pc = "text"
    /\ runs[r].i = 2
    /\ 1 \in runs[r].skipped
    /\ LastCall(runs[r]) = Call("text", 2, Some(bookData[1].outline[1].description))

\* ------------------------------------------------------------- stale runs
\* C27 (as claimed): a run resumed while the status is not GENERATING_BOOK,
\* which is a run that a Reset has left behind, does not change the Project;
\* and no resumption of a run changes the number or the ids of the sections
\* of the Project.
C27_StaleRunKeepsOff ==
  [][\A r \in RunIds : (Continues(r) /\ bookData # None) =>
       /\ status # "GENERATING_BOOK" => bookData' = bookData
       /\ bookData' # None
       /\ Len(bookData'[1].outline) = Len(bookData[1].outline)
       /\ \A k \in 1..Len(bookData[1].outline) :
            bookData'[1].outline[k].id = bookData[1].outline[k].id]_vars

\* ------------------------------------------------------------------ frame
\* What a run leaves alone of a section.
Fixed(chapter) ==
  [id |-> chapter.id, title |-> chapter.title, description |-> chapter.description]

\* C28: no step of a run changes the config of the Project, title included,
\* or the number, the order, the ids, the titles or the descriptions of its
\* sections: after every step they are, in the Project and in the run's own
\* list, what they were before it, and so what they were when the run was
\* called.
C28_RunFrame ==
  [][\A r \in RunIds : Steps(r) =>
       /\ bookData' # None
       /\ bookData'[1].config = bookData[1].config
       /\ runs'[r].config = bookData[1].config
       /\ Len(bookData'[1].outline) = Len(Before(r))
       /\ Len(After(r)) = Len(Before(r))
       /\ \A k \in 1..Len(Before(r)) :
            /\ Fixed(bookData'[1].outline[k]) = Fixed(Before(r)[k])
            /\ Fixed(After(r)[k]) = Fixed(Before(r)[k])]_vars

\* A run with a credential over two sections has ended, having set the cover
\* and generated both sections, and the Project has the title and the two
\* sections of its outline.
C28_Witness ==
  \E r \in RunIds :
    /\ runs[r].pc = "done"
    /\ runs[r].refused = 0
    /\ Len(runs[r].calls) = 5
    /\ bookData[1].coverImage # None
    /\ bookData[1].config = [topic |-> "T", title |-> "P"]
    /\ Len(bookData[1].outline) = 2
    /\ \A k \in 1..2 : bookData[1].outline[k].content # None

\* ------------------------------------------------------------ completion
\* C29 (as claimed): when the status is COMPLETED and there is a Project,
\* every section of it is completed and has a text that is not empty.
C29_CompletedProjectIsWhole ==
  (status = "COMPLETED" /\ bookData # None) =>
    \A k \in 1..Len(bookData[1].outline) :
      /\ bookData[1].outline[k].status = "completed"
      /\ ContentText(bookData[1].outline[k]) # <<>>

\* ------------------------------------------------------------- the reader
\* The illustration call of handleRegenerateImage returns.
RegenReturns == regen.pc = "await" /\ regen'.pc = "idle"

\* C30 (as claimed): when the illustration call of the reader returns, the
\* text of every section of the Project is what it was just before, edits
\* saved during the call included, and when it has resolved the section it
\* was asked for has the new illustration.
C30_EditSurvivesRegeneration ==
  [][(RegenReturns /\ bookData # None) =>
       /\ bookData' # None
       /\ Len(bookData'[1].outline) = Len(bookData[1].outline)
       /\ \A k \in 1..Len(bookData[1].outline) :
            /\ bookData'[1].outline[k].content = bookData[1].outline[k].content
            /\ bookData'[1].outline[k].imageUrl # bookData[1].outline[k].imageUrl =>
                 /\ bookData'[1].outline[k].id = regen.chapterId[1]
                 /\ bookData'[1].outline[k].imageUrl = Some(Url(0, 0))]_vars

====
